---- MODULE Spec2Model ----
(***************************************************************************)
(* Model of celery/worker/job.py: the execution boundary jail() and the    *)
(* TaskWrapper built from a broker message, run inline by execute() or in  *)
(* a worker pool by execute_using_pool().                                  *)
(*                                                                         *)
(* Python values are tagged records ([t |-> "int", v |-> 5], ...), so that *)
(* a return value, None and an ExceptionInfo can be held by one variable.  *)
(***************************************************************************)
EXTENDS Integers, Sequences, FiniteSets, TLC

\* Number of requests (broker deliveries and direct constructions) per run.
MaxDeliveries == 2

VARIABLES
    messages,   \* one entry per request: the broker message (body, ack count,
                \* rejected), or None for a wrapper built directly
    wrappers,   \* one entry per request: the TaskWrapper, or None
    pc,         \* one entry per request: where its processing stands
    frame,      \* one entry per request: the locals of its jail() call
    events,     \* one entry per request: the calls made on its behalf, in order
    pool,       \* one entry per request: the job handed to the Worker Pool
    backend,    \* the Result Backend: task id -> [status, result]
    heap,       \* the dict objects of a wrapper under inspection, by address
    stored,     \* that wrapper; its kwargs field is an address in heap
    returned    \* the addresses extend_with_default_kwargs has returned

jobvars == <<messages, wrappers, pc, frame, events, pool, backend>>

kwvars == <<heap, stored, returned>>

vars == <<jobvars, kwvars>>

----------------------------------------------------------------------------
\* Python values

None == [t |-> "None"]

PyInt(n) == [t |-> "int", v |-> n]

PyStr(s) == [t |-> "str", v |-> s]

\* A key of a kwargs mapping: text as it arrives (unicode) or a byte string.
UKey(s) == [t |-> "unicode", v |-> s]

SKey(s) == [t |-> "str", v |-> s]

\* key.encode("utf-8")
EncodeUtf8(key) == [t |-> "str", v |-> key.v]

\* An exception instance: its class, its args, and whether pickle can dump it.
Exc(cls, args, pickleable) ==
    [t |-> "exc", cls |-> cls, args |-> args, pickleable |-> pickleable]

NotRegistered(name) == Exc("NotRegistered", <<PyStr(name)>>, TRUE)

\* RetryTaskError.__init__(message, exc): args are (message, exc).
RetryTaskError(message, exc) ==
    Exc("RetryTaskError", <<message, exc>>,
        IF exc.t = "exc" THEN exc.pickleable ELSE TRUE)

RECURSIVE JoinRepr(_)
JoinRepr(args) ==
    IF Len(args) = 0 THEN ""
    ELSE "'" \o args[1].v \o "'"
         \o (IF Len(args) > 1 THEN ", " ELSE "")
         \o JoinRepr(Tail(args))

\* str(exc) of an exception whose args are strings: "" for no args, the
\* argument itself for one, the tuple's repr for more.
str(exc) ==
    IF Len(exc.args) = 0 THEN ""
    ELSE IF Len(exc.args) = 1 THEN exc.args[1].v
    ELSE "(" \o JoinRepr(exc.args) \o ")"

\* The first except clause names SystemExit alone.
FatalClassesNoInterrupt == {"SystemExit"}

\* The classes the first except clause of jail() names.
FatalClasses == {"SystemExit", "KeyboardInterrupt"}

\* celery.datastructures.ExceptionInfo((type_, exception, tb)).
ExceptionInfo(type_, exception, tb) ==
    [t |-> "ExceptionInfo", type |-> type_, exception |-> exception,
     traceback |-> tb]

----------------------------------------------------------------------------
\* Dictionaries (dict): functions from keys to values

EmptyDict == [k \in {} |-> None]

\* dict(d) followed by .update(u): the keys of u win.
DictUpdate(d, u) ==
    [k \in (DOMAIN d) \cup (DOMAIN u) |-> IF k \in DOMAIN u THEN u[k] ELSE d[k]]

\* dict((key.encode("utf-8"), value) for key, value in kwargs.items())
EncodeKeys(kwargs) ==
    [k2 \in {EncodeUtf8(k) : k \in DOMAIN kwargs} |->
        kwargs[CHOOSE k \in DOMAIN kwargs : EncodeUtf8(k) = k2]]

----------------------------------------------------------------------------
\* The Task Registry and the task handlers

\* celery.registry.tasks: task name -> handler. "ping" is flagged
\* ignore_result and disable_error_emails.
tasks ==
    [name \in {"add", "ping"} |->
        [name |-> name, ignore_result |-> (name = "ping"),
         disable_error_emails |-> (name = "ping")]]

\* The flag is never read: every handler's result is recorded.
IgnoreResultUnread(func) == FALSE

\* getattr(func, "ignore_result", False)
IgnoreResult(func) == func.ignore_result

\* What a handler computes when it returns: add(a, b) = a + b.
HandlerValue(func, args) ==
    IF func.name = "add" THEN PyInt(args[1].v + args[2].v) ELSE PyStr("pong")

ConnectionError == Exc("ConnectionError", <<PyStr("timeout")>>, TRUE)

\* An error whose payload pickle cannot dump.
SocketError == Exc("SocketError", <<>>, FALSE)

\* What a handler may raise: a worker-fatal signal, a retry signal (as
\* Task.retry raises it: a message and the original error) or an error
\* derived from Exception. add fails with errors pickle can dump, ping with
\* errors it cannot.
Raises(func) ==
    IF func.name = "add"
    THEN { Exc("SystemExit", <<>>, TRUE),
           RetryTaskError(PyStr("transient network error"), ConnectionError),
           Exc("ValueError", <<PyStr("bad input")>>, TRUE) }
    ELSE { Exc("KeyboardInterrupt", <<>>, TRUE),
           RetryTaskError(PyStr("Retry in 180 seconds."), SocketError),
           Exc("LockError", <<PyStr("held")>>, FALSE) }

----------------------------------------------------------------------------
\* Inputs

\* Bodies of the task messages the broker delivers; the same body delivered
\* twice is a redelivery (same task id). The last names no registered task.
MessageData ==
    { [task |-> "add", id |-> "t1", args |-> <<PyInt(2), PyInt(3)>>,
       kwargs |-> EmptyDict, retries |-> 0],
      [task |-> "ping", id |-> "t2", args |-> <<>>,
       kwargs |-> [k \in {UKey("host")} |-> PyStr("example.org")],
       retries |-> 1],
      [task |-> "unknown", id |-> "t2", args |-> <<>>,
       kwargs |-> EmptyDict, retries |-> 0] }

TaskIds == {"t1", "t2"}

\* The loglevel and logfile the worker passes to execute() and
\* execute_using_pool(): logging.INFO, and no file (stderr).
WorkerLoglevel == PyInt(20)

WorkerLogfile == None

----------------------------------------------------------------------------
\* The Result Backend (celery.backends.default_backend)

\* A call recorded in events: the operation, the task id and the argument.
Ev(op, task_id, arg) == [op |-> op, task_id |-> task_id, arg |-> arg]

Entry(status, result) == [status |-> status, result |-> result]

mark_as_done(b, task_id, result) ==
    [b EXCEPT ![task_id] = Entry("DONE", result)]

mark_as_retry(b, task_id, exc) ==
    [b EXCEPT ![task_id] = Entry("RETRY", exc)]

\* The error mark_as_failure stores and returns: the error itself when pickle
\* can dump it, else a wrapper holding its type name and message.
prepare_exception(exc) ==
    IF exc.pickleable THEN exc
    ELSE Exc("UnpickleableExceptionWrapper",
             <<PyStr(exc.cls), PyStr(str(exc))>>, TRUE)

mark_as_failure(b, task_id, exc) ==
    [b EXCEPT ![task_id] = Entry("FAILURE", prepare_exception(exc))]

\* Type name and message of an error, read through the wrapper.
TypeName(exc) ==
    IF exc.cls = "UnpickleableExceptionWrapper" THEN exc.args[1].v ELSE exc.cls

Message(exc) ==
    IF exc.cls = "UnpickleableExceptionWrapper" THEN exc.args[2].v ELSE str(exc)

----------------------------------------------------------------------------
\* TaskWrapper

\* message.ack, bound to the message it acknowledges.
AckOf(m) == [t |-> "bound_method", im_self |-> m, im_func |-> "ack"]

\* TaskWrapper.__init__
TaskWrapper(task_name, task_id, task_func, args, kwargs, on_ack, retries) ==
    [t |-> "TaskWrapper", task_name |-> task_name, task_id |-> task_id,
     task_func |-> task_func, retries |-> retries, args |-> args,
     kwargs |-> kwargs, on_ack |-> on_ack]

\* The registry is not consulted first: an unknown name gets the handler of
\* "add".
from_message_unchecked(m, message_data) ==
    [raised  |-> None,
     wrapper |-> TaskWrapper(message_data.task, message_data.id,
                     IF message_data.task \in DOMAIN tasks
                     THEN tasks[message_data.task] ELSE tasks["add"],
                     message_data.args, EncodeKeys(message_data.kwargs),
                     AckOf(m), message_data.retries)]

\* TaskWrapper.from_message(message, message_data), m the message's index:
\* the exception raised (or None) and the wrapper returned (or None).
from_message(m, message_data) ==
    LET task_name == message_data.task
        task_id   == message_data.id
        args      == message_data.args
        retries   == message_data.retries
        kwargs    == EncodeKeys(message_data.kwargs)
    IN  IF task_name \notin DOMAIN tasks
        THEN [raised |-> NotRegistered(task_name), wrapper |-> None]
        ELSE [raised  |-> None,
              wrapper |-> TaskWrapper(task_name, task_id, tasks[task_name],
                                      args, kwargs, AckOf(m), retries)]

\* TaskWrapper.extend_with_default_kwargs(loglevel, logfile)
extend_with_default_kwargs(self, loglevel, logfile) ==
    LET task_func_kwargs ==
            [k \in {SKey("logfile"), SKey("loglevel"), SKey("task_id"),
                    SKey("task_name"), SKey("task_retries")} |->
                CASE k.v = "logfile"   -> logfile
                  [] k.v = "loglevel"  -> loglevel
                  [] k.v = "task_id"   -> PyStr(self.task_id)
                  [] k.v = "task_name" -> PyStr(self.task_name)
                  [] OTHER             -> PyInt(self.retries)]
    IN  DictUpdate(self.kwargs, task_func_kwargs)

\* The same method on dict objects held by address: h is the heap, self a
\* wrapper whose kwargs field is an address. dict(self.kwargs) allocates a
\* new object; kwargs.update(...) changes the object kwargs names; the
\* method returns that name. Yields the address returned and the heap left.

\* kwargs = self.kwargs: no new object.
dict_alias(h, ref) == [ref |-> ref, heap |-> h]

\* kwargs = dict(self.kwargs)
dict_copy(h, ref) == [ref |-> Len(h) + 1, heap |-> Append(h, h[ref])]

\* kwargs.update(u)
dict_update(h, ref, u) == [h EXCEPT ![ref] = DictUpdate(h[ref], u)]

extend_with_default_kwargs_ref(h, self, loglevel, logfile) ==
    LET kwargs == dict_copy(h, self.kwargs)
        task_func_kwargs ==
            extend_with_default_kwargs([self EXCEPT !.kwargs = EmptyDict],
                                       loglevel, logfile)
    IN  [ref  |-> kwargs.ref,
         heap |-> dict_update(kwargs.heap, kwargs.ref, task_func_kwargs)]

----------------------------------------------------------------------------
\* State

\* The locals of a jail() call; NoFrame before the call.
NoFrame ==
    [ctx |-> "none", task_id |-> "", task_name |-> "", func |-> None,
     args |-> <<>>, kwargs |-> EmptyDict, ignore_result |-> FALSE,
     timer |-> "none", exc |-> None, result |-> None, retval |-> None,
     raised |-> None]

\* jail(task_id, task_name, func, args, kwargs) entered from ctx ("inline":
\* the caller of execute(); "pool": a pool worker).
JailFrame(ctx, jail_args) ==
    [NoFrame EXCEPT !.ctx = ctx, !.task_id = jail_args[1],
                    !.task_name = jail_args[2], !.func = jail_args[3],
                    !.args = jail_args[4], !.kwargs = jail_args[5]]

Requests == 1..Len(pc)

\* Positions inside jail().
InJail == {"jail", "try", "except", "else", "postrun"}

\* execute() blocks its caller until jail() has returned or raised.
Idle == \A n \in Requests : ~(frame[n].ctx = "inline" /\ pc[n] \in InJail)

\* The worker runs or submits each wrapper before it takes the next message.
Dispatched == \A n \in Requests : pc[n] # "wrapped"

Log(n, calls) == [events EXCEPT ![n] = events[n] \o calls]

Init ==
    /\ messages = <<>>
    /\ wrappers = <<>>
    /\ pc = <<>>
    /\ frame = <<>>
    /\ events = <<>>
    /\ pool = <<>>
    /\ backend = [id \in TaskIds |-> Entry("PENDING", None)]
    /\ heap = <<>>
    /\ stored = None
    /\ returned = <<>>

----------------------------------------------------------------------------
\* Building the TaskWrapper

\* The broker delivers a message and the worker calls from_message on it.
Receive(message_data) ==
    /\ Len(pc) < MaxDeliveries
    /\ Idle
    /\ Dispatched
    /\ LET m == Len(pc) + 1
           r == from_message(m, message_data)
       IN  /\ messages' = Append(messages,
                  [data |-> message_data, acks |-> 0, rejected |-> FALSE])
           /\ wrappers' = Append(wrappers, r.wrapper)
           /\ pc' = Append(pc, IF r.raised = None THEN "wrapped"
                               ELSE "NotRegistered")
           /\ frame' = Append(frame, [NoFrame EXCEPT !.raised = r.raised])
    /\ events' = Append(events, <<>>)
    /\ pool' = Append(pool, None)
    /\ UNCHANGED backend
    /\ UNCHANGED kwvars

\* Requests built with TaskWrapper(...) directly: no on_ack.
DirectRequests ==
    { [task |-> "add", id |-> "t2", args |-> <<PyInt(2), PyInt(3)>>,
       kwargs |-> EmptyDict, retries |-> 0] }

\* TaskWrapper(task_name, task_id, task_func, args, kwargs): on_ack is None.
Construct(d) ==
    /\ Len(pc) < MaxDeliveries
    /\ Idle
    /\ Dispatched
    /\ messages' = Append(messages, None)
    /\ wrappers' = Append(wrappers,
           TaskWrapper(d.task, d.id, tasks[d.task], d.args, d.kwargs,
                       None, d.retries))
    /\ pc' = Append(pc, "wrapped")
    /\ frame' = Append(frame, NoFrame)
    /\ events' = Append(events, <<>>)
    /\ pool' = Append(pool, None)
    /\ UNCHANGED backend
    /\ UNCHANGED kwvars

----------------------------------------------------------------------------
\* TaskWrapper.execute and TaskWrapper.execute_using_pool

\* message.ack()
Ack(on_ack) ==
    [messages EXCEPT ![on_ack.im_self].acks = @ + 1]

\* execute() calls jail() without invoking on_ack.
ExecuteWithoutAck(n, loglevel, logfile) ==
    /\ pc[n] = "wrapped"
    /\ Idle
    /\ LET self == wrappers[n]
           task_func_kwargs == extend_with_default_kwargs(self, loglevel, logfile)
       IN  frame' = [frame EXCEPT ![n] =
               JailFrame("inline", <<self.task_id, self.task_name,
                         self.task_func, self.args, task_func_kwargs>>)]
    /\ pc' = [pc EXCEPT ![n] = "jail"]
    /\ UNCHANGED <<messages, events, wrappers, pool, backend>>
    /\ UNCHANGED kwvars

\* TaskWrapper.execute(loglevel, logfile) up to its call of jail().
Execute(n, loglevel, logfile) ==
    /\ pc[n] = "wrapped"
    /\ Idle
    /\ LET self == wrappers[n]
           task_func_kwargs == extend_with_default_kwargs(self, loglevel, logfile)
       IN  /\ IF self.on_ack # None
              THEN /\ messages' = Ack(self.on_ack)
                   /\ events' = Log(n, <<Ev("on_ack", self.task_id, None)>>)
              ELSE UNCHANGED <<messages, events>>
           /\ frame' = [frame EXCEPT ![n] =
                  JailFrame("inline", <<self.task_id, self.task_name,
                            self.task_func, self.args, task_func_kwargs>>)]
    /\ pc' = [pc EXCEPT ![n] = "jail"]
    /\ UNCHANGED <<wrappers, pool, backend>>
    /\ UNCHANGED kwvars

\* jail_args holds the stored kwargs, without the default context.
ExecuteUsingPoolStoredKwargs(n, loglevel, logfile) ==
    /\ pc[n] = "wrapped"
    /\ Idle
    /\ LET self == wrappers[n]
           jail_args == <<self.task_id, self.task_name, self.task_func,
                          self.args, self.kwargs>>
       IN  pool' = [pool EXCEPT ![n] =
               [target |-> "jail", args |-> jail_args,
                callbacks |-> <<"on_success">>, errbacks |-> <<"on_failure">>,
                on_ack |-> self.on_ack,
                meta |-> [task_id |-> self.task_id,
                          task_name |-> self.task_name]]]
    /\ pc' = [pc EXCEPT ![n] = "submitted"]
    /\ UNCHANGED <<messages, wrappers, frame, events, backend>>
    /\ UNCHANGED kwvars

\* jail_args lists task_name before task_id.
ExecuteUsingPoolSwapped(n, loglevel, logfile) ==
    /\ pc[n] = "wrapped"
    /\ Idle
    /\ LET self == wrappers[n]
           task_func_kwargs == extend_with_default_kwargs(self, loglevel, logfile)
           jail_args == <<self.task_name, self.task_id, self.task_func,
                          self.args, task_func_kwargs>>
       IN  pool' = [pool EXCEPT ![n] =
               [target |-> "jail", args |-> jail_args,
                callbacks |-> <<"on_success">>, errbacks |-> <<"on_failure">>,
                on_ack |-> self.on_ack,
                meta |-> [task_id |-> self.task_id,
                          task_name |-> self.task_name]]]
    /\ pc' = [pc EXCEPT ![n] = "submitted"]
    /\ UNCHANGED <<messages, wrappers, frame, events, backend>>
    /\ UNCHANGED kwvars

\* on_ack is invoked by the submitter before the job is handed over.
ExecuteUsingPoolAcksFirst(n, loglevel, logfile) ==
    /\ pc[n] = "wrapped"
    /\ Idle
    /\ LET self == wrappers[n]
           task_func_kwargs == extend_with_default_kwargs(self, loglevel, logfile)
           jail_args == <<self.task_id, self.task_name, self.task_func,
                          self.args, task_func_kwargs>>
       IN  /\ pool' = [pool EXCEPT ![n] =
                  [target |-> "jail", args |-> jail_args,
                   callbacks |-> <<"on_success">>, errbacks |-> <<"on_failure">>,
                   on_ack |-> self.on_ack,
                   meta |-> [task_id |-> self.task_id,
                             task_name |-> self.task_name]]]
           /\ IF self.on_ack # None
              THEN /\ messages' = Ack(self.on_ack)
                   /\ events' = Log(n, <<Ev("on_ack", self.task_id, None)>>)
              ELSE UNCHANGED <<messages, events>>
    /\ pc' = [pc EXCEPT ![n] = "submitted"]
    /\ UNCHANGED <<wrappers, frame, backend>>
    /\ UNCHANGED kwvars

\* TaskWrapper.execute_using_pool(pool, loglevel, logfile): pool.apply_async.
ExecuteUsingPool(n, loglevel, logfile) ==
    /\ pc[n] = "wrapped"
    /\ Idle
    /\ LET self == wrappers[n]
           task_func_kwargs == extend_with_default_kwargs(self, loglevel, logfile)
           jail_args == <<self.task_id, self.task_name, self.task_func,
                          self.args, task_func_kwargs>>
       IN  pool' = [pool EXCEPT ![n] =
               [target |-> "jail", args |-> jail_args,
                callbacks |-> <<"on_success">>, errbacks |-> <<"on_failure">>,
                on_ack |-> self.on_ack,
                meta |-> [task_id |-> self.task_id,
                          task_name |-> self.task_name]]]
    /\ pc' = [pc EXCEPT ![n] = "submitted"]
    /\ UNCHANGED <<messages, wrappers, frame, events, backend>>
    /\ UNCHANGED kwvars

----------------------------------------------------------------------------
\* jail(task_id, task_name, func, args, kwargs)

\* The traceback sys.exc_info() gives for a raised exception.
Traceback(exc) == "Traceback (most recent call last): " \o exc.cls

\* process_cleanup() is called before the hooks.
JailPreludeCleanupFirst(n) ==
    /\ pc[n] = "jail"
    /\ frame' = [frame EXCEPT ![n].ignore_result = IgnoreResult(frame[n].func),
                              ![n].timer = "running"]
    /\ events' = Log(n, <<Ev("timer_start", frame[n].task_id, None),
                          Ev("process_cleanup", frame[n].task_id, None),
                          Ev("on_task_init", frame[n].task_id, None),
                          Ev("task_prerun", frame[n].task_id, None)>>)
    /\ pc' = [pc EXCEPT ![n] = "try"]
    /\ UNCHANGED <<messages, wrappers, pool, backend>>
    /\ UNCHANGED kwvars

\* jail() up to the try statement: ignore_result, the timer, the task-init
\* and before-run hooks, the backend's process_cleanup.
JailPrelude(n) ==
    /\ pc[n] = "jail"
    /\ frame' = [frame EXCEPT ![n].ignore_result = IgnoreResult(frame[n].func),
                              ![n].timer = "running"]
    /\ events' = Log(n, <<Ev("timer_start", frame[n].task_id, None),
                          Ev("on_task_init", frame[n].task_id, None),
                          Ev("task_prerun", frame[n].task_id, None),
                          Ev("process_cleanup", frame[n].task_id, None)>>)
    /\ pc' = [pc EXCEPT ![n] = "try"]
    /\ UNCHANGED <<messages, wrappers, pool, backend>>
    /\ UNCHANGED kwvars

\* result = func(*args, **kwargs) returns.
HandlerReturns(n) ==
    /\ pc[n] = "try"
    /\ frame' = [frame EXCEPT ![n].result =
                    HandlerValue(frame[n].func, frame[n].args)]
    /\ events' = Log(n, <<Ev("func", frame[n].task_id, None)>>)
    /\ pc' = [pc EXCEPT ![n] = "else"]
    /\ UNCHANGED <<messages, wrappers, pool, backend>>
    /\ UNCHANGED kwvars

\* result = func(*args, **kwargs) raises.
HandlerRaises(n) ==
    /\ pc[n] = "try"
    /\ \E exc \in Raises(frame[n].func) :
           frame' = [frame EXCEPT ![n].exc = exc]
    /\ events' = Log(n, <<Ev("func", frame[n].task_id, None)>>)
    /\ pc' = [pc EXCEPT ![n] = "except"]
    /\ UNCHANGED <<messages, wrappers, pool, backend>>
    /\ UNCHANGED kwvars

\* The exception leaves jail() with the timer running.
ExceptFatalTimerRunning(n) ==
    /\ pc[n] = "except"
    /\ frame[n].exc.cls \in FatalClasses
    /\ frame' = [frame EXCEPT ![n].raised = frame[n].exc]
    /\ pc' = [pc EXCEPT ![n] = "raised"]
    /\ UNCHANGED <<messages, wrappers, events, pool, backend>>
    /\ UNCHANGED kwvars

\* except (SystemExit, KeyboardInterrupt): raise. The finally clause stops
\* the timer and the exception leaves jail().
ExceptFatal(n) ==
    /\ pc[n] = "except"
    /\ frame[n].exc.cls \in FatalClasses
    /\ frame' = [frame EXCEPT ![n].timer = "stopped",
                              ![n].raised = frame[n].exc]
    /\ events' = Log(n, <<Ev("timer_stop", frame[n].task_id, None)>>)
    /\ pc' = [pc EXCEPT ![n] = "raised"]
    /\ UNCHANGED <<messages, wrappers, pool, backend>>
    /\ UNCHANGED kwvars

\* The raised RetryTaskError itself is wrapped, original error included.
RetryRetvalLive(exc) == ExceptionInfo(exc.cls, exc, Traceback(exc))

\* The ExceptionInfo jail() returns for a retry: a RetryTaskError whose
\* message is "message: str(orig_exc)" and whose exc is None.
RetryRetval(exc) ==
    LET message == exc.args[1]
        orig_exc == exc.args[2]
        expanded_msg == message.v \o ": " \o str(orig_exc)
    IN  ExceptionInfo(exc.cls, RetryTaskError(PyStr(expanded_msg), None),
                      Traceback(exc))

\* After mark_as_retry the error is also recorded as a failure.
ExceptRetryThenFailure(n) ==
    /\ pc[n] = "except"
    /\ frame[n].exc.cls \notin FatalClasses
    /\ frame[n].exc.cls = "RetryTaskError"
    /\ LET exc == frame[n].exc
           orig_exc == exc.args[2]
       IN  /\ backend' = mark_as_failure(
                  mark_as_retry(backend, frame[n].task_id, orig_exc),
                  frame[n].task_id, orig_exc)
           /\ frame' = [frame EXCEPT ![n].retval = RetryRetval(exc),
                                     ![n].timer = "stopped"]
           /\ events' = Log(n, <<Ev("mark_as_retry", frame[n].task_id, orig_exc),
                                 Ev("mark_as_failure", frame[n].task_id, orig_exc),
                                 Ev("timer_stop", frame[n].task_id, None)>>)
    /\ pc' = [pc EXCEPT ![n] = "postrun"]
    /\ UNCHANGED <<messages, wrappers, pool>>
    /\ UNCHANGED kwvars

\* except RetryTaskError, exc, then the finally clause.
ExceptRetry(n) ==
    /\ pc[n] = "except"
    /\ frame[n].exc.cls \notin FatalClasses
    /\ frame[n].exc.cls = "RetryTaskError"
    /\ LET exc == frame[n].exc
           orig_exc == exc.args[2]
       IN  /\ backend' = mark_as_retry(backend, frame[n].task_id, orig_exc)
           /\ frame' = [frame EXCEPT ![n].retval = RetryRetval(exc),
                                     ![n].timer = "stopped"]
           /\ events' = Log(n, <<Ev("mark_as_retry", frame[n].task_id, orig_exc),
                                 Ev("timer_stop", frame[n].task_id, None)>>)
    /\ pc' = [pc EXCEPT ![n] = "postrun"]
    /\ UNCHANGED <<messages, wrappers, pool>>
    /\ UNCHANGED kwvars

\* The raised error is wrapped instead of the one mark_as_failure returned.
FailureRetvalRaw(exc, stored_exc) == ExceptionInfo(exc.cls, exc, Traceback(exc))

\* The ExceptionInfo jail() returns for a failure: it holds the error
\* mark_as_failure returned.
FailureRetval(exc, stored_exc) ==
    ExceptionInfo(exc.cls, stored_exc, Traceback(exc))

\* The failure is recorded and the error raised again.
ExceptExceptionReraise(n) ==
    /\ pc[n] = "except"
    /\ frame[n].exc.cls \notin FatalClasses
    /\ frame[n].exc.cls # "RetryTaskError"
    /\ backend' = mark_as_failure(backend, frame[n].task_id, frame[n].exc)
    /\ frame' = [frame EXCEPT ![n].timer = "stopped",
                              ![n].raised = frame[n].exc]
    /\ events' = Log(n, <<Ev("mark_as_failure", frame[n].task_id, frame[n].exc),
                          Ev("timer_stop", frame[n].task_id, None)>>)
    /\ pc' = [pc EXCEPT ![n] = "raised"]
    /\ UNCHANGED <<messages, wrappers, pool>>
    /\ UNCHANGED kwvars

\* except Exception, exc, then the finally clause.
ExceptException(n) ==
    /\ pc[n] = "except"
    /\ frame[n].exc.cls \notin FatalClasses
    /\ frame[n].exc.cls # "RetryTaskError"
    /\ LET exc == frame[n].exc
           stored_exc == prepare_exception(exc)
       IN  /\ backend' = mark_as_failure(backend, frame[n].task_id, exc)
           /\ frame' = [frame EXCEPT ![n].retval = FailureRetval(exc, stored_exc),
                                     ![n].timer = "stopped"]
           /\ events' = Log(n, <<Ev("mark_as_failure", frame[n].task_id, exc),
                                 Ev("timer_stop", frame[n].task_id, None)>>)
    /\ pc' = [pc EXCEPT ![n] = "postrun"]
    /\ UNCHANGED <<messages, wrappers, pool>>
    /\ UNCHANGED kwvars

\* The else clause (the handler returned), then the finally clause.
Else(n) ==
    /\ pc[n] = "else"
    /\ IF ~frame[n].ignore_result
       THEN /\ backend' = mark_as_done(backend, frame[n].task_id, frame[n].result)
            /\ events' = Log(n, <<Ev("mark_as_done", frame[n].task_id,
                                     frame[n].result),
                                  Ev("timer_stop", frame[n].task_id, None)>>)
       ELSE /\ UNCHANGED backend
            /\ events' = Log(n, <<Ev("timer_stop", frame[n].task_id, None)>>)
    /\ frame' = [frame EXCEPT ![n].retval = frame[n].result,
                              ![n].timer = "stopped"]
    /\ pc' = [pc EXCEPT ![n] = "postrun"]
    /\ UNCHANGED <<messages, wrappers, pool>>
    /\ UNCHANGED kwvars

\* jail() returns without sending task_postrun.
PostrunUnsent(n) ==
    /\ pc[n] = "postrun"
    /\ events' = Log(n, <<Ev("return", frame[n].task_id, frame[n].retval)>>)
    /\ pc' = [pc EXCEPT ![n] = "returned"]
    /\ UNCHANGED <<messages, wrappers, frame, pool, backend>>
    /\ UNCHANGED kwvars

\* task_postrun is sent the handler's result, not retval.
PostrunSendsResult(n) ==
    /\ pc[n] = "postrun"
    /\ events' = Log(n, <<Ev("task_postrun", frame[n].task_id, frame[n].result),
                          Ev("return", frame[n].task_id, frame[n].retval)>>)
    /\ pc' = [pc EXCEPT ![n] = "returned"]
    /\ UNCHANGED <<messages, wrappers, frame, pool, backend>>
    /\ UNCHANGED kwvars

\* signals.task_postrun.send(..., retval=retval); return retval
Postrun(n) ==
    /\ pc[n] = "postrun"
    /\ events' = Log(n, <<Ev("task_postrun", frame[n].task_id, frame[n].retval),
                          Ev("return", frame[n].task_id, frame[n].retval)>>)
    /\ pc' = [pc EXCEPT ![n] = "returned"]
    /\ UNCHANGED <<messages, wrappers, frame, pool, backend>>
    /\ UNCHANGED kwvars

----------------------------------------------------------------------------
\* The Worker Pool and the callbacks it is given

\* A pool worker takes the job and calls jail(*args).
PoolStart(n) ==
    /\ pc[n] = "submitted"
    /\ frame' = [frame EXCEPT ![n] = JailFrame("pool", pool[n].args)]
    /\ pc' = [pc EXCEPT ![n] = "jail"]
    /\ UNCHANGED <<messages, wrappers, events, pool, backend>>
    /\ UNCHANGED kwvars

\* TaskWrapper.on_success(ret_value, meta)
on_success(self, ret_value, meta) ==
    <<Ev("logger.info", meta.task_id, ret_value)>>

PyBool(b) == [t |-> "bool", v |-> b]

\* django.core.mail.mail_admins(subject, body, fail_silently): the calls
\* made and the exception raised (or None). delivered tells whether the
\* mail server took the message.
mail_admins(task_id, exc, fail_silently, delivered) ==
    [calls  |-> <<Ev("mail_admins", task_id, exc)>>
                \o (IF delivered THEN <<>>
                    ELSE <<Ev("delivery_failed", task_id, exc)>>),
     raised |-> IF delivered \/ fail_silently THEN None
                ELSE Exc("SMTPException", <<>>, TRUE)]

\* The task type's opt-out is not consulted.
on_failure_no_opt_out(self, exc_info, meta, send_emails, delivered) ==
    LET mail == mail_admins(meta.task_id, exc_info.exception, TRUE, delivered)
    IN  [calls  |-> <<Ev("conf.SEND_CELERY_TASK_ERROR_EMAILS", meta.task_id,
                         PyBool(send_emails)),
                      Ev("logger.error", meta.task_id, exc_info.exception)>>
                    \o (IF send_emails THEN mail.calls ELSE <<>>),
         raised |-> IF send_emails THEN mail.raised ELSE None]

\* mail_admins(subject, body): fail_silently is left at False.
on_failure_loud(self, exc_info, meta, send_emails, delivered) ==
    LET task_obj == IF meta.task_name \in DOMAIN tasks
                    THEN tasks[meta.task_name]
                    ELSE [disable_error_emails |-> FALSE]
        send_error_email == send_emails /\ ~task_obj.disable_error_emails
        mail == mail_admins(meta.task_id, exc_info.exception, FALSE, delivered)
    IN  [calls  |-> <<Ev("conf.SEND_CELERY_TASK_ERROR_EMAILS", meta.task_id,
                         PyBool(send_emails)),
                      Ev("logger.error", meta.task_id, exc_info.exception)>>
                    \o (IF send_error_email THEN mail.calls ELSE <<>>),
         raised |-> IF send_error_email THEN mail.raised ELSE None]

\* TaskWrapper.on_failure(exc_info, meta): the calls made and the exception
\* raised (or None). send_emails is the setting
\* SEND_CELERY_TASK_ERROR_EMAILS, read when on_failure is entered.
on_failure(self, exc_info, meta, send_emails, delivered) ==
    LET task_obj == IF meta.task_name \in DOMAIN tasks
                    THEN tasks[meta.task_name]
                    ELSE [disable_error_emails |-> FALSE]
        send_error_email == send_emails /\ ~task_obj.disable_error_emails
        mail == mail_admins(meta.task_id, exc_info.exception, TRUE, delivered)
    IN  [calls  |-> <<Ev("conf.SEND_CELERY_TASK_ERROR_EMAILS", meta.task_id,
                         PyBool(send_emails)),
                      Ev("logger.error", meta.task_id, exc_info.exception)>>
                    \o (IF send_error_email THEN mail.calls ELSE <<>>),
         raised |-> IF send_error_email THEN mail.raised ELSE None]

\* The pool's return handler, run in the pool's context once jail() has
\* returned: on_ack, then the errbacks for an ExceptionInfo, else the
\* callbacks. A callback that raises leaves the request at
\* "callback_raised".
PoolOnReturn(n, send_emails, delivered) ==
    /\ pc[n] = "returned"
    /\ frame[n].ctx = "pool"
    /\ LET job == pool[n]
           ret_value == frame[n].retval
           acked == IF job.on_ack # None
                    THEN <<Ev("on_ack", job.meta.task_id, None)>> ELSE <<>>
           called == IF ret_value.t = "ExceptionInfo"
                     THEN on_failure(wrappers[n], ret_value, job.meta,
                                     send_emails, delivered)
                     ELSE [calls  |-> on_success(wrappers[n], ret_value,
                                                 job.meta),
                           raised |-> None]
       IN  /\ messages' = IF job.on_ack # None THEN Ack(job.on_ack)
                          ELSE messages
           /\ events' = Log(n, acked \o called.calls)
           /\ pc' = [pc EXCEPT ![n] = IF called.raised = None
                                      THEN "called_back"
                                      ELSE "callback_raised"]
    /\ UNCHANGED <<wrappers, frame, pool, backend>>
    /\ UNCHANGED kwvars

----------------------------------------------------------------------------
Next ==
    \/ \E d \in MessageData : Receive(d)
    \/ \E d \in DirectRequests : Construct(d)
    \/ \E n \in Requests : Execute(n, WorkerLoglevel, WorkerLogfile)
    \/ \E n \in Requests : ExecuteUsingPool(n, WorkerLoglevel, WorkerLogfile)
    \/ \E n \in Requests : PoolStart(n)
    \/ \E n \in Requests : JailPrelude(n)
    \/ \E n \in Requests : HandlerReturns(n)
    \/ \E n \in Requests : HandlerRaises(n)
    \/ \E n \in Requests : ExceptFatal(n)
    \/ \E n \in Requests : ExceptRetry(n)
    \/ \E n \in Requests : ExceptException(n)
    \/ \E n \in Requests : Else(n)
    \/ \E n \in Requests : Postrun(n)
    \/ \E n \in Requests, send_emails \in BOOLEAN, delivered \in BOOLEAN :
           PoolOnReturn(n, send_emails, delivered)

Spec == Init /\ [][Next]_vars

----------------------------------------------------------------------------
\* Reading the record of a request

\* How many times op was called on behalf of request n.
----------------------------------------------------------------------------
\* extend_with_default_kwargs on one wrapper, its mappings held by address

\* Calls of extend_with_default_kwargs per run.
MaxCalls == 2

Loglevels == {PyInt(10), PyInt(20)}

Logfiles == {None, PyStr("worker.log")}

\* The wrappers inspected: those the worker builds from the task messages
\* and those built directly.
StoredWrappers ==
    {from_message(1, d).wrapper :
         d \in {e \in MessageData : e.task \in DOMAIN tasks}}
    \cup {TaskWrapper(d.task, d.id, tasks[d.task], d.args, d.kwargs,
                      None, d.retries) : d \in DirectRequests}

\* Keys a caller assigns in a mapping it was handed.
AssignedKeys == {SKey("loglevel"), SKey("host")}

\* TaskWrapper.__init__: self.kwargs = kwargs names the dict object.
Store(w) ==
    /\ stored = None
    /\ heap' = <<w.kwargs>>
    /\ stored' = [w EXCEPT !.kwargs = 1]
    /\ UNCHANGED returned
    /\ UNCHANGED jobvars

\* A call self.extend_with_default_kwargs(loglevel, logfile).
CallExtend(loglevel, logfile) ==
    /\ stored # None
    /\ Len(returned) < MaxCalls
    /\ LET r == extend_with_default_kwargs_ref(heap, stored, loglevel, logfile)
       IN  /\ heap' = r.heap
           /\ returned' = Append(returned,
                  [ref |-> r.ref, loglevel |-> loglevel, logfile |-> logfile])
    /\ UNCHANGED stored
    /\ UNCHANGED jobvars

\* The caller changes the i-th mapping it was handed: mapping[key] = 0.
Assign(i, key) ==
    /\ i \in DOMAIN returned
    /\ heap' = dict_update(heap, returned[i].ref, [k \in {key} |-> PyInt(0)])
    /\ UNCHANGED <<stored, returned>>
    /\ UNCHANGED jobvars

NextKwargs ==
    \/ \E w \in StoredWrappers : Store(w)
    \/ \E loglevel \in Loglevels, logfile \in Logfiles :
           CallExtend(loglevel, logfile)
    \/ \E i \in 1..MaxCalls, key \in AssignedKeys : Assign(i, key)

SpecKwargs == Init /\ [][NextKwargs]_vars

Count(n, op) ==
    Cardinality({i \in DOMAIN events[n] : events[n][i].op = op})

\* Every call of a on behalf of request n precedes every call of b.
Precedes(n, a, b) ==
    \A i \in DOMAIN events[n] :
        events[n][i].op = a =>
            \A j \in DOMAIN events[n] : events[n][j].op = b => i < j

\* The calls that record an outcome in the Result Backend, and all its calls.
MarkOps == {"mark_as_done", "mark_as_retry", "mark_as_failure"}

BackendOps == MarkOps \cup {"process_cleanup"}

Marks(n) == {i \in DOMAIN events[n] : events[n][i].op \in MarkOps}

\* jail() has returned for request n.
JailReturned(n) == pc[n] \in {"returned", "called_back"}

\* The handler of request n was called and returned / raised.
HandlerReturned(n) ==
    /\ pc[n] \in {"else", "postrun", "returned", "called_back"}
    /\ frame[n].exc = None

HandlerRaised(n) == frame[n].ctx # "none" /\ frame[n].exc # None

\* The worker-fatal signals.
WorkerFatal == {"SystemExit", "KeyboardInterrupt"}

RaisedFatal(n) == HandlerRaised(n) /\ frame[n].exc.cls \in WorkerFatal

RaisedRetry(n) == HandlerRaised(n) /\ frame[n].exc.cls = "RetryTaskError"

RaisedError(n) == HandlerRaised(n) /\ ~RaisedFatal(n) /\ ~RaisedRetry(n)

----------------------------------------------------------------------------
\* Claims

C1_State ==
    \A n \in Requests :
        (JailReturned(n) /\ HandlerReturned(n)) =>
            LET v == HandlerValue(wrappers[n].task_func, wrappers[n].args)
            IN  /\ frame[n].retval = v
                /\ \E i \in DOMAIN events[n] :
                       events[n][i] = Ev("return", wrappers[n].task_id, v)
                /\ IF wrappers[n].task_func.ignore_result
                   THEN Marks(n) = {}
                   ELSE /\ Count(n, "mark_as_done") = 1
                        /\ Cardinality(Marks(n)) = 1
                        /\ \E i \in Marks(n) :
                               events[n][i] =
                                   Ev("mark_as_done", wrappers[n].task_id, v)

C1_Step ==
    \A n \in Requests :
        (pc[n] = "else" /\ pc'[n] = "postrun"
            /\ ~wrappers[n].task_func.ignore_result) =>
        backend'[wrappers[n].task_id] =
            Entry("DONE", HandlerValue(wrappers[n].task_func, wrappers[n].args))

\* C1: when the handler returns v, jail returns v; unless the handler is
\* flagged ignore_result, mark_as_done(task_id, v) is called exactly once and
\* the entry of task_id becomes DONE; if it is flagged, no mark_as_done (and
\* no other outcome) is recorded and jail still returns v.
C1_SuccessRecordsDone == [] C1_State /\ [][C1_Step]_vars

\* Two successful runs have returned, one of a handler flagged ignore_result.
C1_Witness ==
    \E n, m \in Requests :
        /\ JailReturned(n) /\ HandlerReturned(n)
        /\ JailReturned(m) /\ HandlerReturned(m)
        /\ wrappers[n].task_func.ignore_result
        /\ ~wrappers[m].task_func.ignore_result
        /\ frame[m].retval = PyInt(5)

C2_State ==
    \A n \in Requests :
        (RaisedRetry(n) /\ pc[n] \in {"postrun", "returned", "called_back"}) =>
            LET exc == frame[n].exc
                message == exc.args[1].v
                orig_exc == exc.args[2]
                info == frame[n].retval
            IN  /\ Count(n, "mark_as_retry") = 1
                /\ Cardinality(Marks(n)) = 1
                /\ \E i \in Marks(n) :
                       events[n][i] =
                           Ev("mark_as_retry", wrappers[n].task_id, orig_exc)
                /\ info.t = "ExceptionInfo"
                /\ info.exception.cls = "RetryTaskError"
                /\ info.exception.args[1] =
                       PyStr(message \o ": " \o str(orig_exc))
                /\ (orig_exc = ConnectionError =>
                       info.exception.args[1].v =
                           "transient network error: timeout")
                /\ \A i \in DOMAIN info.exception.args :
                       info.exception.args[i].t # "exc"
                /\ info.exception.pickleable

C2_Step ==
    \A n \in Requests :
        (pc[n] = "except" /\ pc'[n] = "postrun" /\ RaisedRetry(n)) =>
        backend'[wrappers[n].task_id] = Entry("RETRY", frame[n].exc.args[2])

\* C2: when the handler raises RetryTaskError(message, original_error),
\* mark_as_retry(task_id, original_error) is called, the entry of task_id
\* becomes RETRY, and jail returns an ExceptionInfo whose exception has the
\* message "message: str(original_error)" and no exception among its args.
C2_RetryRecordsRetry == [] C2_State /\ [][C2_Step]_vars

\* jail has returned for a retry whose original error pickle cannot dump,
\* and for one whose original error is ConnectionError("timeout").
C2_Witness ==
    \E n, m \in Requests :
        /\ JailReturned(n) /\ RaisedRetry(n)
        /\ ~frame[n].exc.args[2].pickleable
        /\ JailReturned(m) /\ RaisedRetry(m)
        /\ frame[m].exc.args[2] = ConnectionError

C3_State ==
    \A n \in Requests :
        (RaisedError(n) /\ pc[n] \in {"postrun", "returned", "called_back"}) =>
            LET exc == frame[n].exc
                info == frame[n].retval
            IN  /\ Count(n, "mark_as_failure") = 1
                /\ Cardinality(Marks(n)) = 1
                /\ \E i \in Marks(n) :
                       events[n][i] =
                           Ev("mark_as_failure", wrappers[n].task_id, exc)
                /\ info.t = "ExceptionInfo"
                /\ info.exception = prepare_exception(exc)
                /\ info.exception.pickleable
                /\ TypeName(info.exception) = exc.cls
                /\ Message(info.exception) = str(exc)
                /\ (~exc.pickleable => info.exception # exc)

C3_Step ==
    \A n \in Requests :
        (pc[n] = "except" /\ pc'[n] = "postrun" /\ RaisedError(n)) =>
        /\ backend'[wrappers[n].task_id].status = "FAILURE"
        /\ backend'[wrappers[n].task_id].result = frame'[n].retval.exception

C4_Original ==
    \A n \in Requests :
        RaisedFatal(n) /\ pc[n] = "raised" =>
            /\ frame[n].raised = frame[n].exc
            /\ \A i \in DOMAIN events[n] : events[n][i].op \notin BackendOps

C4_State ==
    \A n \in Requests :
        /\ (RaisedFatal(n) /\ pc[n] # "except") =>
               /\ pc[n] = "raised"
               /\ frame[n].raised = frame[n].exc
               /\ frame[n].retval = None
               /\ Marks(n) = {}
               /\ Count(n, "process_cleanup") = 1
               /\ Precedes(n, "process_cleanup", "func")
        /\ RaisedFatal(n) =>
               \A i \in DOMAIN events[n] :
                   events[n][i].op \in BackendOps =>
                       events[n][i].op = "process_cleanup"

C4_Step ==
    \A n \in Requests :
        (RaisedFatal(n) /\ pc'[n] # pc[n]) => backend' = backend

\* C4 (amended): when the handler raises SystemExit or KeyboardInterrupt,
\* the caller of jail() sees that same signal raised; no mark_as_done,
\* mark_as_retry or mark_as_failure is called and the backend is left as it
\* was; the run's only Result Backend call is process_cleanup(), made before
\* the handler is called.
C4_FatalPropagates == [] C4_State /\ [][C4_Step]_vars

\* Both worker-fatal signals have left jail().
C4_Witness ==
    \E n, m \in Requests :
        /\ pc[n] = "raised" /\ frame[n].raised.cls = "SystemExit"
        /\ pc[m] = "raised" /\ frame[m].raised.cls = "KeyboardInterrupt"

C5_State ==
    \A n \in Requests :
        /\ (RaisedRetry(n) \/ RaisedError(n)) =>
               /\ pc[n] \in {"except", "postrun", "returned", "called_back"}
               /\ frame[n].raised = None
               /\ Count(n, "return") = (IF JailReturned(n) THEN 1 ELSE 0)
               /\ JailReturned(n) => frame[n].retval.t = "ExceptionInfo"
        /\ pc[n] = "raised" => RaisedFatal(n)

C5_Step ==
    \A n \in Requests :
        ((RaisedRetry(n) \/ RaisedError(n)) /\ pc'[n] # pc[n]) =>
            \/ pc[n] = "except" /\ pc'[n] = "postrun"
            \/ pc[n] = "postrun" /\ pc'[n] = "returned"
            \/ pc[n] = "returned" /\ pc'[n] = "called_back"

\* C5: when the handler raises a retry signal or another non-fatal error,
\* jail() (and so execute()) goes on to return an ExceptionInfo and raises
\* nothing; an exception leaves jail() only for a worker-fatal signal.
C5_NonFatalAbsorbed == [] C5_State /\ [][C5_Step]_vars

\* execute() has returned for a failed handler, and a pool run of jail() for
\* a retry.
C5_Witness ==
    \E n, m \in Requests :
        /\ frame[n].ctx = "inline" /\ pc[n] = "returned" /\ RaisedError(n)
        /\ frame[m].ctx = "pool" /\ JailReturned(m) /\ RaisedRetry(m)

\* C6: in a call of execute() with on_ack set, on_ack is invoked exactly
\* once, before the hooks, the handler and every backend call, and the
\* message stays acknowledged once whatever the outcome; with on_ack unset
\* no acknowledgment is made.
C6_AckBeforeHandler ==
    \A n \in Requests :
        frame[n].ctx = "inline" =>
            IF wrappers[n].on_ack # None
            THEN /\ Count(n, "on_ack") = 1
                 /\ events[n][1].op = "on_ack"
                 /\ messages[wrappers[n].on_ack.im_self].acks = 1
            ELSE /\ Count(n, "on_ack") = 0
                 /\ messages[n] = None

\* execute() acknowledged a message whose handler then raised a worker-fatal
\* signal, and ran a handler to its return for a wrapper without on_ack.
C6_Witness ==
    \E n, m \in Requests :
        /\ frame[n].ctx = "inline" /\ wrappers[n].on_ack # None
        /\ pc[n] = "raised"
        /\ frame[m].ctx = "inline" /\ wrappers[m].on_ack = None
        /\ pc[m] = "returned" /\ Count(m, "func") = 1

\* Control has left jail() for request n.
JailLeft(n) == pc[n] \in {"returned", "called_back", "raised"}

\* C7 as stated: every attempt fires task_prerun once before the handler and
\* task_postrun once after it, whatever the outcome.
C7_Original ==
    \A n \in Requests :
        JailLeft(n) =>
            /\ Count(n, "task_prerun") = 1
            /\ Precedes(n, "task_prerun", "func")
            /\ Count(n, "task_postrun") = 1
            /\ Precedes(n, "func", "task_postrun")

\* C7 (amended): every attempt fires task_prerun exactly once before the
\* handler; task_postrun is fired exactly once after the handler, with the
\* value jail() returns, on every attempt whose handler returns, raises a
\* retry signal or raises another error (failed attempts included), and is
\* not fired when the handler raises a worker-fatal signal.
C7_HooksAroundAttempt ==
    \A n \in Requests :
        /\ pc[n] \in (InJail \ {"jail"}) \/ JailLeft(n) =>
               /\ Count(n, "task_prerun") = 1
               /\ Precedes(n, "task_prerun", "func")
        /\ JailReturned(n) =>
               /\ Count(n, "func") = 1
               /\ Count(n, "task_postrun") = 1
               /\ Precedes(n, "func", "task_postrun")
               /\ \E i \in DOMAIN events[n] :
                      events[n][i] =
                          Ev("task_postrun", wrappers[n].task_id, frame[n].retval)
        /\ ~JailReturned(n) => Count(n, "task_postrun") = 0

\* A failed attempt has fired task_postrun and an attempt ended by a
\* worker-fatal signal has left jail() without it.
C7_Witness ==
    \E n, m \in Requests :
        /\ JailReturned(n) /\ RaisedError(n) /\ Count(n, "task_postrun") = 1
        /\ pc[m] = "raised" /\ Count(m, "task_postrun") = 0

C8_State ==
    \A n \in Requests :
        (messages[n] # None /\ messages[n].data.task \notin DOMAIN tasks) =>
            /\ pc[n] = "NotRegistered"
            /\ frame[n].raised = NotRegistered(messages[n].data.task)
            /\ wrappers[n] = None
            /\ pool[n] = None
            /\ frame[n].ctx = "none"
            /\ events[n] = <<>>

C8_Step ==
    (Len(pc') > Len(pc) /\ pc'[Len(pc')] = "NotRegistered") => backend' = backend

C9_Original ==
    \A n \in Requests :
        pc[n] = "NotRegistered" =>
            /\ messages[n].rejected
            /\ messages[n].acks = 0

\* Request n is at the point of jail() where it records its outcome.
Recording(n) ==
    \/ pc[n] = "else" /\ ~frame[n].ignore_result
    \/ pc[n] = "except" /\ ~RaisedFatal(n)

\* C10 as stated: no two runs of jail() record an outcome for the same task
\* id at the same time, redeliveries included.
C10_Original ==
    \A n, m \in Requests :
        (n # m /\ Recording(n) /\ Recording(m)) =>
            frame[n].task_id # frame[m].task_id

C10_State ==
    \A n \in Requests :
        /\ Cardinality(Marks(n)) <= 1
        /\ \A i \in Marks(n) : events[n][i].task_id = wrappers[n].task_id
        /\ \A m \in Requests :
               (n # m /\ Recording(n) /\ Recording(m)
                   /\ wrappers[n].task_id # wrappers[m].task_id) =>
               frame[n].task_id # frame[m].task_id

C10_Step ==
    \A n \in Requests :
        pc'[n] # pc[n] =>
            \A id \in TaskIds :
                backend'[id] # backend[id] =>
                    wrappers[n] # None /\ id = wrappers[n].task_id

\* C10 (amended): a run of jail() writes only the Result Backend entry of
\* its own task id, and at most once, so runs for different task ids never
\* write the same entry; runs for the same task id (a redelivery) are not
\* serialised and can record their outcomes at the same time.
C10_OwnEntryOnly == [] C10_State /\ [][C10_Step]_vars

\* Two pool runs for different task ids are both about to record an outcome.
C10_Witness ==
    \E n, m \in Requests :
        /\ n # m /\ Recording(n) /\ Recording(m)
        /\ frame[n].ctx = "pool" /\ frame[m].ctx = "pool"
        /\ wrappers[n].task_id # wrappers[m].task_id


C11_State ==
    \A n \in Requests :
        /\ pc[n] = "submitted" =>
               /\ events[n] = <<>>
               /\ frame[n] = NoFrame
               /\ messages[n] # None => messages[n].acks = 0
               /\ pool[n].target = "jail"
               /\ pool[n].callbacks = <<"on_success">>
               /\ pool[n].errbacks = <<"on_failure">>
        /\ (pool[n] # None /\ events[n] # <<>>) => frame[n].ctx = "pool"

C11_Step ==
    \A n \in Requests :
        (pc[n] = "wrapped" /\ pc'[n] = "submitted") =>
            /\ backend' = backend
            /\ messages' = messages
            /\ events' = events
            /\ frame' = frame

\* C11: execute_using_pool() returns to the submitter having only handed the
\* job to the pool: the handler, on_ack, every Result Backend call,
\* on_success and on_failure have not run when it returns and run only
\* later, in the pool's context.
C11_SubmitRunsNothing == [] C11_State /\ [][C11_Step]_vars

\* A job of a broker message has been submitted and not yet taken, while an
\* earlier submission has run to its callback in the pool.
C11_Witness ==
    \E n, m \in Requests :
        /\ pc[n] = "submitted" /\ messages[n] # None
        /\ pool[m] # None /\ pc[m] = "called_back"
        /\ Count(m, "on_ack") = 1


C12_State ==
    \A i \in DOMAIN returned :
        /\ returned[i].ref # stored.kwargs
        /\ \A j \in DOMAIN returned : j # i => returned[j].ref # returned[i].ref

C12_Step ==
    stored # None =>
        /\ stored' = stored
        /\ heap'[stored.kwargs] = heap[stored.kwargs]
        /\ Len(returned') > Len(returned) =>
               LET r == returned'[Len(returned')]
               IN  /\ r.ref \notin DOMAIN heap
                   /\ heap'[r.ref][SKey("loglevel")] = r.loglevel
                   /\ \A k \in DOMAIN heap[stored.kwargs] :
                          /\ k \in DOMAIN heap'[r.ref]
                          /\ k # SKey("loglevel") =>
                                 heap'[r.ref][k] = heap[stored.kwargs][k]
                   /\ \A a \in DOMAIN heap : heap'[a] = heap[a]
        /\ returned' = returned =>
               \E i \in DOMAIN returned :
                   \A a \in DOMAIN heap :
                       a # returned[i].ref => heap'[a] = heap[a]

\* C12: extend_with_default_kwargs() never changes the wrapper's stored
\* kwargs; every call returns a new mapping, distinct from the stored kwargs
\* and from every mapping returned before, that holds the loglevel of its
\* own call, and a change made to one returned mapping changes neither
\* another returned mapping nor the stored kwargs.
C12_IndependentMappings == [] C12_State /\ [][C12_Step]_vars

\* Two calls with different loglevels returned; the caller then overwrote
\* loglevel and host in the first mapping; the second mapping and the
\* stored kwargs (which hold host) still have their values.
C12_Witness ==
    /\ stored # None
    /\ stored.task_name = "ping"
    /\ Len(returned) = 2
    /\ returned[1].loglevel # returned[2].loglevel
    /\ heap[returned[1].ref][SKey("loglevel")] = PyInt(0)
    /\ heap[returned[1].ref][SKey("host")] = PyInt(0)
    /\ heap[returned[2].ref][SKey("loglevel")] = returned[2].loglevel
    /\ heap[returned[2].ref][SKey("host")] = PyStr("example.org")
    /\ heap[stored.kwargs] = [k \in {SKey("host")} |-> PyStr("example.org")]


\* on_failure() has been called for request n and has ended.
FailureCalledBack(n) ==
    /\ pc[n] \in {"called_back", "callback_raised"}
    /\ frame[n].retval.t = "ExceptionInfo"

\* The setting on_failure() read for request n.
PolicyEnabled(n) ==
    \E i \in DOMAIN events[n] :
        /\ events[n][i].op = "conf.SEND_CELERY_TASK_ERROR_EMAILS"
        /\ events[n][i].arg = PyBool(TRUE)

\* The task type of request n has set disable_error_emails.
OptedOut(n) ==
    /\ wrappers[n].task_name \in DOMAIN tasks
    /\ tasks[wrappers[n].task_name].disable_error_emails

\* C13: each call of on_failure() logs exactly one failure message, and
\* dispatches exactly one notification when the failure-notification policy
\* is enabled and the task type has not set disable_error_emails, and none
\* otherwise; a request on_failure() was not called for has neither.
C13_OneLogOneMail ==
    \A n \in Requests :
        IF FailureCalledBack(n)
        THEN /\ Count(n, "logger.error") = 1
             /\ Count(n, "mail_admins") =
                    (IF PolicyEnabled(n) /\ ~OptedOut(n) THEN 1 ELSE 0)
        ELSE /\ Count(n, "logger.error") = 0
             /\ Count(n, "mail_admins") = 0

\* With the policy enabled for both, a failed "add" got its notification
\* and a failed "ping" (which opts out) got none; each logged one message.
C13_Witness ==
    \E n, m \in Requests :
        /\ FailureCalledBack(n) /\ PolicyEnabled(n) /\ ~OptedOut(n)
        /\ Count(n, "mail_admins") = 1 /\ Count(n, "logger.error") = 1
        /\ FailureCalledBack(m) /\ PolicyEnabled(m) /\ OptedOut(m)
        /\ Count(m, "mail_admins") = 0 /\ Count(m, "logger.error") = 1

C14_State ==
    \A n \in Requests :
        /\ pc[n] # "callback_raised"
        /\ Count(n, "delivery_failed") > 0 =>
               /\ pc[n] = "called_back"
               /\ Count(n, "mail_admins") = 1

C14_Step ==
    \A n \in Requests :
        (pc[n] = "returned" /\ pc'[n] \in {"called_back", "callback_raised"}) =>
            backend' = backend

\* C14: when the delivery of the notification fails inside on_failure(),
\* on_failure() still returns normally, and the call of on_failure() leaves
\* the Result Backend entry of the task id as it was.
C14_DeliveryFailureSuppressed == [] C14_State /\ [][C14_Step]_vars

\* The notification of a failed task could not be delivered; on_failure()
\* returned and the entry still holds FAILURE.
C14_Witness ==
    \E n \in Requests :
        /\ Count(n, "delivery_failed") = 1
        /\ pc[n] = "called_back"
        /\ backend[wrappers[n].task_id].status = "FAILURE"


\* The steps of jail() up to the handler call, in the order of the code.
PreludeOps ==
    <<"timer_start", "on_task_init", "task_prerun", "process_cleanup", "func">>

\* Every other call jail() makes.
TailOps == MarkOps \cup {"timer_stop", "task_postrun", "return"}

JailOps == {PreludeOps[i] : i \in DOMAIN PreludeOps} \cup TailOps

\* The calls jail() made for request n, in the order made.
JailCalls(n) ==
    LET made == SelectSeq(events[n], LAMBDA e : e.op \in JailOps)
    IN  [i \in DOMAIN made |-> made[i].op]

\* How many of the steps up to the handler call request n has gone through.
PreludeDone(n) ==
    CASE frame[n].ctx = "none" \/ pc[n] = "jail" -> 0
      [] frame[n].ctx # "none" /\ pc[n] = "try"  -> 4
      [] OTHER -> 5

\* C15: in every jail() run the timer start, the task-init hook, the
\* before-run hook, process_cleanup() and the handler call occur once each,
\* in this order; the handler is called only after process_cleanup(), and
\* no later step of jail() comes before the handler call.
C15_PreludeInOrder ==
    \A n \in Requests :
        LET calls == JailCalls(n)
            k == PreludeDone(n)
        IN  /\ Len(calls) >= k
            /\ \A i \in 1..k : calls[i] = PreludeOps[i]
            /\ \A i \in (k + 1)..Len(calls) : calls[i] \in TailOps

\* One run has made the four calls and not yet called the handler; another
\* has gone through the handler and left jail().
C15_Witness ==
    \E n, m \in Requests :
        /\ frame[n].ctx # "none" /\ pc[n] = "try"
        /\ JailCalls(n) = SubSeq(PreludeOps, 1, 4)
        /\ JailLeft(m) /\ SubSeq(JailCalls(m), 1, 5) = PreludeOps

\* C16: the timing record a jail() run starts is stopped exactly once
\* before control leaves jail(), whether the handler returned, asked for a
\* retry, raised another error or raised a worker-fatal signal; it is never
\* stopped before it is started or twice.
C16_TimerStoppedOnce ==
    \A n \in Requests :
        /\ Count(n, "timer_start") <= 1
        /\ Count(n, "timer_stop") <= Count(n, "timer_start")
        /\ Precedes(n, "timer_start", "timer_stop")
        /\ frame[n].timer = "running" => pc[n] \in InJail
        /\ (JailLeft(n) \/ pc[n] = "callback_raised") =>
               /\ Count(n, "timer_start") = 1
               /\ Count(n, "timer_stop") = 1
               /\ frame[n].timer = "stopped"
               /\ Precedes(n, "timer_stop", "return")

\* A worker-fatal signal has left jail() and a retry has been returned,
\* each with its timer stopped.
C16_Witness ==
    \E n, m \in Requests :
        /\ pc[n] = "raised" /\ RaisedFatal(n) /\ frame[n].timer = "stopped"
        /\ JailReturned(m) /\ RaisedRetry(m) /\ frame[m].timer = "stopped"


\* The outcome writes made for request n, in the order made.
MarkCalls(n) == SelectSeq(events[n], LAMBDA e : e.op \in MarkOps)

C17_State ==
    \A n \in Requests :
        /\ Len(MarkCalls(n)) <= 1
        /\ MarkCalls(n) # <<>> =>
               /\ pc[n] \in {"postrun", "returned", "called_back",
                             "callback_raised"}
               /\ MarkCalls(n)[1].op =
                      (IF HandlerReturned(n) THEN "mark_as_done"
                       ELSE IF RaisedRetry(n) THEN "mark_as_retry"
                       ELSE "mark_as_failure")

C17_Step ==
    \A n \in Requests :
        (MarkCalls(n) # <<>> /\ pc'[n] # pc[n]) =>
            /\ backend' = backend
            /\ MarkCalls(n)' = MarkCalls(n)

\* C17: one jail() run calls at most one of mark_as_done, mark_as_retry and
\* mark_as_failure, at most once, the one that belongs to its outcome; once
\* it has written, no later step of the same run writes the Result Backend
\* again. (A later run with the same task id writes anew: C17_Witness.)
C17_OneWritePerRun == [] C17_State /\ [][C17_Step]_vars

\* A first run for t1 wrote RETRY and returned; a later run for the same
\* task id then wrote DONE, which the entry now holds.
C17_Witness ==
    \E n, m \in Requests :
        /\ n < m
        /\ wrappers[n] # None /\ wrappers[m] # None
        /\ wrappers[n].task_id = wrappers[m].task_id
        /\ frame[n].ctx = "inline" /\ frame[m].ctx = "inline"
        /\ JailReturned(n) /\ JailReturned(m)
        /\ MarkCalls(n) # <<>> /\ MarkCalls(n)[1].op = "mark_as_retry"
        /\ MarkCalls(m) # <<>> /\ MarkCalls(m)[1].op = "mark_as_done"
        /\ backend[wrappers[n].task_id].status = "DONE"

\* The calls of jail()'s tail made for request n, in the order made.
TailCalls(n) ==
    LET made == SelectSeq(events[n], LAMBDA e : e.op \in TailOps)
    IN  [i \in DOMAIN made |-> made[i].op]

\* C18: when jail() has returned, its tail consisted of the outcome write
\* (if one was made), then the stop of the timer, then the after-run hook,
\* then the return, each once; the after-run hook was passed as retval the
\* value jail() returned.
C18_TailInOrder ==
    \A n \in Requests :
        JailReturned(n) =>
            /\ TailCalls(n) =
                   (IF MarkCalls(n) = <<>> THEN <<>>
                    ELSE <<MarkCalls(n)[1].op>>)
                   \o <<"timer_stop", "task_postrun", "return">>
            /\ \E i \in DOMAIN events[n] :
                   /\ events[n][i] =
                          Ev("task_postrun", frame[n].task_id, frame[n].retval)
                   /\ events[n][i + 1] =
                          Ev("return", frame[n].task_id, frame[n].retval)

\* jail() has returned the error record of a failed run, after one write,
\* and the value of a result-ignoring handler, after none.
C18_Witness ==
    \E n, m \in Requests :
        /\ JailReturned(n) /\ RaisedError(n)
        /\ TailCalls(n) =
               <<"mark_as_failure", "timer_stop", "task_postrun", "return">>
        /\ JailReturned(m) /\ HandlerReturned(m)
        /\ TailCalls(m) = <<"timer_stop", "task_postrun", "return">>


\* Requests n and m hold the same wrapper but for on_ack, n run by execute()
\* and m handed to the pool by execute_using_pool().
SameWork(n, m) ==
    /\ frame[n].ctx = "inline"
    /\ pool[m] # None
    /\ [wrappers[n] EXCEPT !.on_ack = None] = [wrappers[m] EXCEPT !.on_ack = None]

\* The arguments jail() was called with for request n.
JailArgs(n) ==
    <<frame[n].task_id, frame[n].task_name, frame[n].func, frame[n].args,
      frame[n].kwargs>>

\* The handler behaved alike in the runs of n and m, and both have returned.
SameBehaviour(n, m) ==
    /\ JailReturned(n) /\ frame[m].ctx = "pool" /\ JailReturned(m)
    /\ frame[n].result = frame[m].result
    /\ frame[n].exc = frame[m].exc

\* C19: for the same wrapper, loglevel and logfile, execute_using_pool()
\* submits jail with the arguments execute() calls jail with (task_id,
\* task_name, handler, args, kwargs extended with the default context), and
\* for the same handler behaviour both runs make the same outcome write and
\* return the same value; execute() invokes on_ack itself, before jail(),
\* and no callback, while execute_using_pool() hands on_ack, on_success and
\* on_failure to the pool.
C19_SameWorkBothPaths ==
    \A n, m \in Requests :
        SameWork(n, m) =>
            /\ JailArgs(n) =
                   <<wrappers[n].task_id, wrappers[n].task_name,
                     wrappers[n].task_func, wrappers[n].args,
                     extend_with_default_kwargs(wrappers[n], WorkerLoglevel,
                                                WorkerLogfile)>>
            /\ pool[m].target = "jail"
            /\ pool[m].args = JailArgs(n)
            /\ frame[m].ctx = "pool" => JailArgs(m) = JailArgs(n)
            /\ SameBehaviour(n, m) =>
                   /\ MarkCalls(n) = MarkCalls(m)
                   /\ frame[n].retval = frame[m].retval
            /\ pool[m].on_ack = wrappers[m].on_ack
            /\ pool[m].callbacks = <<"on_success">>
            /\ pool[m].errbacks = <<"on_failure">>
            /\ Count(n, "on_ack") = (IF wrappers[n].on_ack # None THEN 1 ELSE 0)
            /\ \A op \in {"timer_start", "func"} : Precedes(n, "on_ack", op)
            /\ \A op \in {"logger.info", "logger.error", "mail_admins"} :
                   Count(n, op) = 0
            /\ Precedes(m, "return", "on_ack")

\* The same message was run inline and, redelivered, through the pool; the
\* handler raised the same error in both runs, both wrote the same FAILURE,
\* and the pool has called back.
C19_Witness ==
    \E n, m \in Requests :
        /\ SameWork(n, m) /\ SameBehaviour(n, m)
        /\ RaisedError(n)
        /\ MarkCalls(n) # <<>> /\ MarkCalls(n) = MarkCalls(m)
        /\ wrappers[n].kwargs # frame[n].kwargs
        /\ pc[m] = "called_back"
        /\ Count(n, "on_ack") = 1 /\ Count(m, "on_ack") = 1

====
